---------------------------- MODULE Spec2Model ----------------------------
(***************************************************************************)
(* The gesture engine of SwipeableComponent                                *)
(* (src/packages/swipeable-views-fc/src/index.tsx).                        *)
(*                                                                         *)
(* Reading conventions.                                                    *)
(*  - The component addresses the fields of an instance both as refs       *)
(*    (startX.current) and as this.startX.  The model has one field per    *)
(*    name: this.X and X.current are the same field of the instance, and   *)
(*    this.state.X is the useState value X.                                *)
(*  - In lines 307-308 the name isSwiping denotes the decision computed    *)
(*    in line 289 (declared there as _isSwiping).                          *)
(*  - rootNode.current and containerNode.current are the instance's root   *)
(*    and container elements; the identity of a root is the instance's     *)
(*    name.                                                                *)
(*  - Lengths are pixels.  An index is held as index * ViewLength, so the  *)
(*    fractional indices the handlers compute are integers; a velocity is  *)
(*    held as velocity * VScale, so the halving of the low-pass filter is  *)
(*    exact.                                                               *)
(*  - It is the development build (process.env.NODE_ENV # 'production').   *)
(***************************************************************************)
EXTENDS Integers, Sequences, FiniteSets, TLC

\* ------------------------------------------------------------------ bounds

\* The measured length of a root along the swipe axis (getBoundingClientRect).
ViewLength == 10

\* How many low-pass filter steps a velocity is followed exactly.
MaxFilterSteps == 2

VScale == 2 ^ MaxFilterSteps

\* The sibling instances, named by their root elements.
Nodes == {"A", "B"}

\* nodeWhoClaimedTheScroll = null
Null == "null"

\* No transform on the container yet (computed style 'none').
None == <<>>

\* indexCurrent.current = null: a value no index takes.
NullIndex == 0 - (ViewLength * ViewLength)

Axes == {"x", "x-reverse", "y", "y-reverse"}

Abs(n) == IF n < 0 THEN 0 - n ELSE n

\* ------------------------------------------------------- axis geometry

rotationMatrix(axis) ==
  CASE axis = "x"         -> [x |-> <<1, 0>>,     y |-> <<0, 1>>]
    [] axis = "x-reverse" -> [x |-> <<0 - 1, 0>>, y |-> <<0, 1>>]
    [] axis = "y"         -> [x |-> <<0, 1>>,     y |-> <<1, 0>>]
    [] axis = "y-reverse" -> [x |-> <<0, 0 - 1>>, y |-> <<1, 0>>]

\* The rotation with the second row reading a coefficient of the first.
applyRotationMatrix_RowSlip(touch, axis) ==
  LET m == rotationMatrix(axis)
  IN  [pageX |-> m.x[1] * touch.pageX + m.x[2] * touch.pageY,
       pageY |-> m.y[1] * touch.pageX + m.x[2] * touch.pageY]

applyRotationMatrix(touch, axis) ==
  LET m == rotationMatrix(axis)
  IN  [pageX |-> m.x[1] * touch.pageX + m.x[2] * touch.pageY,
       pageY |-> m.y[1] * touch.pageX + m.y[2] * touch.pageY]

\* The transforms with the sign of x-reverse taken from x.
axisTransform_XReverseSign(axis, translate) ==
  CASE axis = "x"         -> <<0 - translate, 0>>
    [] axis = "x-reverse" -> <<0 - translate, 0>>
    [] axis = "y"         -> <<0, 0 - translate>>
    [] axis = "y-reverse" -> <<0, translate>>

\* axisProperties.transform[axis](translate): the two arguments of
\* translate(.., ..); translate is index * 100 percent of the view length,
\* held in pixels.
axisTransform(axis, translate) ==
  CASE axis = "x"         -> <<0 - translate, 0>>
    [] axis = "x-reverse" -> <<translate, 0>>
    [] axis = "y"         -> <<0, 0 - translate>>
    [] axis = "y-reverse" -> <<0, translate>>

\* ----------------------------------------------------------- notifications

\* One call a handler makes on its environment.
Call(cb, index, reason) == [cb |-> cb, index |-> index, reason |-> reason]

PreventDefault == Call("preventDefault", 0, "")

\* constant.UNCERTAINTY_THRESHOLD
UNCERTAINTY_THRESHOLD == 3


\* ------------------------------------------------ development-time checks

\* checkIndexBounds: the first argument handed to console.warn.
checkIndexBoundsCondition(index, childrenCount) ==
  index >= 0 /\ index <= childrenCount

\* checkIndexBounds({index, children}): console.warn is called with the
\* condition as its first argument and the message as its second; it prints
\* whatever it is given.
checkIndexBounds(index, childrenCount) ==
  << Call("console.warn", index,
          IF checkIndexBoundsCondition(index, childrenCount)
          THEN "true" ELSE "false") >>

\* ------------------------------------------------------ index computation

\* computeIndex({children, resistance, pageX, startIndex, startX,
\* viewLength}).  startX is reported only at a hard edge (adjusted).
computeIndex(childCount, resistance, pageX, startIndex, startX, viewLength) ==
  LET indexMax == (childCount - 1) * ViewLength
      indexCandidate ==
        IF viewLength = 0 THEN startIndex
        ELSE startIndex + ((startX - pageX) * ViewLength) \div viewLength
  IN  IF ~resistance
      THEN IF indexCandidate < 0
           THEN [index |-> 0, adjusted |-> TRUE, startX |-> pageX]
           ELSE IF indexCandidate > indexMax
           THEN [index |-> indexMax, adjusted |-> TRUE, startX |-> pageX]
           ELSE [index |-> indexCandidate, adjusted |-> FALSE, startX |-> 0]
      ELSE IF indexCandidate < 0
           THEN [index |-> 0 - ((0 - indexCandidate) \div 2),
                 adjusted |-> FALSE, startX |-> 0]
           ELSE IF indexCandidate > indexMax
           THEN [index |-> indexMax + ((indexCandidate - indexMax) \div 2),
                 adjusted |-> FALSE, startX |-> 0]
           ELSE [index |-> indexCandidate, adjusted |-> FALSE, startX |-> 0]

\* ------------------------------------------------------------- handlers

\* handleTransitionEnd without the filter on isDragging.
handleTransitionEnd_NoDragFilter(p, c) ==
  IF ~p.onTransitionEnd THEN <<>>
  ELSE IF c.displaySameSlide THEN <<>>
  ELSE << Call("onTransitionEnd", 0, "") >>

\* handleTransitionEnd(): the calls it makes.
handleTransitionEnd(p, c) ==
  IF ~p.onTransitionEnd THEN <<>>
  ELSE IF c.displaySameSlide THEN <<>>
  ELSE IF ~c.isDragging THEN << Call("onTransitionEnd", 0, "") >>
  ELSE <<>>

\* setIndexCurrent(_indexCurrent)
setIndexCurrent(p, c, index) ==
  [c   |-> [c EXCEPT !.indexCurrent = index,
                     !.transform = axisTransform(p.axis, index)],
   out |-> IF ~p.animateTransitions /\ c.indexCurrent # index
           THEN handleTransitionEnd(p, c) ELSE <<>>]

\* The index the computed transform of the container stands for
\* (handleSwipeStart, lines 239-254): the matrix's translation, rotated
\* into swipe space and divided by the view length.
transformIndex(p, c) ==
  0 - applyRotationMatrix([pageX |-> c.transform[1],
                           pageY |-> c.transform[2]], p.axis).pageX

\* handleSwipeStart(event), event.touches[0] = event
handleSwipeStart(p, c, event) ==
  LET touch == applyRotationMatrix(event, p.axis)
  IN  [c EXCEPT !.viewLength = ViewLength,
                !.startX = touch.pageX,
                !.lastX = touch.pageX,
                !.vx = 0,
                !.startY = touch.pageY,
                !.isSwiping = "undefined",
                !.started = TRUE,
                !.startIndex = IF c.transform # None
                               THEN transformIndex(p, c)
                               ELSE c.startIndex]

\* handleTouchStart(event); the host's onTouchStart is not observed.
handleTouchStart(p, c, event) == handleSwipeStart(p, c, event)

\* The guard with the test of the identity inverted.
notSupposedToHandle_Inverted(claimed, self) ==
  claimed # Null /\ claimed = self

\* The guard of handleSwipeMove on the ownership registry (line 278).
notSupposedToHandle(claimed, self) ==
  claimed # Null /\ claimed # self

\* The exit without the test of the axis.
letParentScroll_AnyAxis(p, c, touch) ==
  /\ ~p.resistance
  /\ \/ c.indexCurrent = 0 /\ c.startX < touch.pageX
     \/ /\ c.indexCurrent = (p.childCount - 1) * ViewLength
        /\ c.startX > touch.pageX

\* We let the parent handle the scroll (lines 292-297).
letParentScroll(p, c, touch) ==
  /\ ~p.resistance
  /\ p.axis \in {"y", "y-reverse"}
  /\ \/ c.indexCurrent = 0 /\ c.startX < touch.pageX
     \/ /\ c.indexCurrent = (p.childCount - 1) * ViewLength
        /\ c.startX > touch.pageX

\* The low-pass filter (line 323), on velocities held times VScale.
lowPass(vx, pageX, lastX) == (vx + (pageX - lastX) * VScale) \div 2

\* The call with the resistance flag negated.
moveIndex_NegatedResistance(p, c, touch) ==
  computeIndex(p.childCount, ~p.resistance, touch.pageX,
               c.startIndex, c.startX, c.viewLength)

\* The call of computeIndex by handleSwipeMove (lines 326-333).
moveIndex(p, c, touch) ==
  computeIndex(p.childCount, p.resistance, touch.pageX,
               c.startIndex, c.startX, c.viewLength)

\* The test without the registry.
asksNativeHandler_IgnoresRegistry(p, claimed) ==
  ~p.ignoreNativeScroll

\* Whether handleSwipeMove asks findNativeHandler (line 336).
asksNativeHandler(p, claimed) ==
  claimed = Null /\ ~p.ignoreNativeScroll

\* The abort with the answer of findNativeHandler negated.
abortsForNative_Negated(p, claimed, native) ==
  asksNativeHandler(p, claimed) /\ ~native

\* Whether handleSwipeMove aborts the move for a native handler (lines
\* 336-349); native is what findNativeHandler answers.
abortsForNative(p, claimed, native) ==
  asksNativeHandler(p, claimed) /\ native

\* The switching callback of a move (lines 360-364).
switchingCallback(index) == Call("onSwitching", index, "move")

\* The tail of handleSwipeMove once the move is to be applied (lines
\* 351-376): c is the instance after the filter, r what computeIndex gave.
applyMove(p, c, claimed, self, r) ==
  LET c1  == IF r.adjusted /\ r.startX # 0
             THEN [c EXCEPT !.startX = r.startX] ELSE c
      reg == IF ~(r.adjusted /\ r.startX # 0) /\ claimed = Null
             THEN self ELSE claimed
      s   == setIndexCurrent(p, c1, r.index)
      first == c.displaySameSlide \/ ~c.isDragging
      c2  == IF first
             THEN [s.c EXCEPT !.displaySameSlide = FALSE, !.isDragging = TRUE]
             ELSE s.c
  IN  [c |-> c2, claimed |-> reg,
       out |-> s.out \o (IF first THEN << switchingCallback(r.index) >> ELSE <<>>)
                     \o << switchingCallback(r.index) >>]

\* The decision of line 289 with the comparison of dx and dy left out.
isSwipingDecision_NoCompare(dx, dy) ==
  dx > UNCERTAINTY_THRESHOLD

\* Whether the move is a swipe along the axis (line 289).
isSwipingDecision(dx, dy) ==
  dx > dy /\ dx > UNCERTAINTY_THRESHOLD

\* The test of line 315 as a test for undefined.
notSwiping_OnlyUndefined(isSwiping) ==
  isSwiping = "undefined"

\* Boolean(isSwiping.current) !== true (line 315)
notSwiping(isSwiping) ==
  isSwiping # "true"

\* handleSwipeMove(event) once the gesture is started (lines 277-377);
\* native is what findNativeHandler answers for the DOM path of the event
\* when it is asked.
startedMove(p, c, claimed, self, event, native) ==
  LET touch == applyRotationMatrix(event, p.axis)
      same(out) == [c |-> c, claimed |-> claimed, out |-> out]
      dx == Abs(touch.pageX - c.startX)
      dy == Abs(touch.pageY - c.startY)
      decision == isSwipingDecision(dx, dy)
      prevented == IF dx > dy THEN << PreventDefault >> ELSE <<>>
      cf == [c EXCEPT !.vx = lowPass(c.vx, touch.pageX, c.lastX),
                      !.lastX = touch.pageX]
      r  == moveIndex(p, c, touch)
      asked == asksNativeHandler(p, claimed)
      askedOut == IF asked
                  THEN << Call("findNativeHandler", 0,
                               IF native THEN "true" ELSE "false") >>
                  ELSE <<>>
      applied == applyMove(p, cf, claimed, self, r)
  IN  IF notSupposedToHandle(claimed, self) THEN same(<<>>)
      ELSE IF c.isSwiping = "undefined"
      THEN IF letParentScroll(p, c, touch)
           THEN [c |-> [c EXCEPT !.isSwiping = "false"],
                 claimed |-> claimed, out |-> <<>>]
           ELSE IF decision \/ dy > UNCERTAINTY_THRESHOLD
           THEN [c |-> [c EXCEPT !.isSwiping = IF decision THEN "true" ELSE "false",
                                 !.startX = touch.pageX],
                 claimed |-> claimed, out |-> prevented]
           ELSE same(prevented)
      ELSE IF notSwiping(c.isSwiping) THEN same(<<>>)
      ELSE IF abortsForNative(p, claimed, native)
      THEN [c |-> cf, claimed |-> claimed, out |-> << PreventDefault >> \o askedOut]
      ELSE [c |-> applied.c, claimed |-> applied.claimed,
            out |-> << PreventDefault >> \o askedOut \o applied.out]

\* handleSwipeMove with the ownership guard ahead of the test of started.
handleSwipeMove_GuardFirst(p, c, claimed, self, event, native) ==
  IF notSupposedToHandle(claimed, self)
  THEN [c |-> c, claimed |-> claimed, out |-> <<>>]
  ELSE IF ~c.started
  THEN [c |-> handleTouchStart(p, c, event), claimed |-> claimed, out |-> <<>>]
  ELSE startedMove(p, c, claimed, self, event, native)

\* handleSwipeMove(event) (lines 269-377): a move that finds no gesture
\* started sets the starting point and returns.
handleSwipeMove(p, c, claimed, self, event, native) ==
  IF ~c.started
  THEN [c |-> handleTouchStart(p, c, event), claimed |-> claimed, out |-> <<>>]
  ELSE startedMove(p, c, claimed, self, event, native)

\* The touchmove listener of the root (lines 414-427).
touchMoveListener(p, c, claimed, self, event, native) ==
  IF p.disabled
  THEN [c |-> c, claimed |-> claimed, out |-> <<>>]
  ELSE handleSwipeMove(p, c, claimed, self, event, native)

\* The transitionend listener of the container (lines 405-411); own says
\* that the event's target is the container itself.
transitionListener(p, c, own) ==
  IF ~own THEN <<>> ELSE handleTransitionEnd(p, c)

\* useMount (lines 396-401)
useMount(p, c) ==
  LET s == setIndexCurrent(p, c, p.index * ViewLength)
  IN  [c |-> s.c, out |-> checkIndexBounds(p.index, p.childCount) \o s.out]


\* ---------------------------------------------------------------- state

VARIABLES
  nodeWhoClaimedTheScroll,  \* the ownership registry: Null or a root
  props,                    \* the props of each instance (fixed)
  instances,                \* the refs and the state of each instance
  ev,                       \* the event delivered last
  out                       \* the calls its handling made, in order

vars == <<nodeWhoClaimedTheScroll, props, instances, ev, out>>

\* The refs (lines 190-204) and the state (lines 181-188) of an instance
\* after construction, before it is mounted.
NewInstance ==
  [mounted          |-> "no",
   isDragging       |-> FALSE,
   displaySameSlide |-> TRUE,
   indexCurrent     |-> NullIndex,
   transform        |-> None,
   started          |-> FALSE,
   viewLength       |-> 0,
   lastX            |-> 0,
   vx               |-> 0,
   startX           |-> 0,
   startY           |-> 0,
   isSwiping        |-> "undefined",
   startIndex       |-> 0]

\* The defaults of the props (lines 146-180), for three children.
DefaultProps ==
  [axis               |-> "x",
   animateTransitions |-> TRUE,
   disabled           |-> FALSE,
   ignoreNativeScroll |-> FALSE,
   resistance         |-> FALSE,
   onTransitionEnd    |-> TRUE,
   index              |-> 0,
   childCount         |-> 3]

\* Where the gesture of an instance stands: not started, or what is decided.
Phase(c) == IF ~c.started THEN "idle" ELSE c.isSwiping

\* An event: its type, the instance it reaches, and where the gesture of
\* that instance stood when it arrived.
Event(type, inst, phase) == [type |-> type, inst |-> inst, phase |-> phase]

InitWith(P) ==
  /\ nodeWhoClaimedTheScroll = Null
  /\ props \in [Nodes -> P]
  /\ instances = [n \in Nodes |-> NewInstance]
  /\ ev = Event("init", Null, "idle")
  /\ out = <<>>

\* The filter's halving is followed exactly: a move that reaches the filter
\* is taken while the velocity held is even.
FilterExact(p, c, claimed, self) ==
  (~p.disabled /\ c.started /\ ~notSupposedToHandle(claimed, self)
     /\ c.isSwiping = "true")
    => c.vx % 2 = 0

\* ---------------------------------------------------------------- actions

\* The instance is mounted: useMount, and the effect that adds the
\* listeners.
Mount(i) ==
  /\ instances[i].mounted = "no"
  /\ LET m == useMount(props[i], instances[i])
     IN  /\ instances' = [instances EXCEPT ![i] = [m.c EXCEPT !.mounted = "yes"]]
         /\ out' = m.out
  /\ ev' = Event("mount", i, Phase(instances[i]))
  /\ UNCHANGED <<nodeWhoClaimedTheScroll, props>>

\* A touch start on the root: handleTouchStart.
TouchStart(i, event) ==
  /\ instances[i].mounted = "yes"
  /\ instances' = [instances EXCEPT
                     ![i] = handleTouchStart(props[i], instances[i], event)]
  /\ out' = <<>>
  /\ ev' = Event("touchstart", i, Phase(instances[i]))
  /\ UNCHANGED <<nodeWhoClaimedTheScroll, props>>

\* A touch move on the root: the touchmove listener.
TouchMove(i, event, native) ==
  /\ instances[i].mounted = "yes"
  /\ FilterExact(props[i], instances[i], nodeWhoClaimedTheScroll, i)
  /\ LET m == touchMoveListener(props[i], instances[i],
                                nodeWhoClaimedTheScroll, i, event, native)
     IN  /\ instances' = [instances EXCEPT ![i] = m.c]
         /\ nodeWhoClaimedTheScroll' = m.claimed
         /\ out' = m.out
  /\ ev' = Event("touchmove", i, Phase(instances[i]))
  /\ UNCHANGED props

\* A touch end or a touch cancel on the root: the component has no listener
\* for either.
TouchEnd(i, type) ==
  /\ instances[i].mounted = "yes"
  /\ out' = <<>>
  /\ ev' = Event(type, i, Phase(instances[i]))
  /\ UNCHANGED <<nodeWhoClaimedTheScroll, props, instances>>

\* A transitionend event reaches the container: the transitionend listener.
TransitionEnd(i, own) ==
  /\ instances[i].mounted = "yes"
  /\ out' = transitionListener(props[i], instances[i], own)
  /\ ev' = Event("transitionend", i, Phase(instances[i]))
  /\ UNCHANGED <<nodeWhoClaimedTheScroll, props, instances>>

\* The instance is unmounted: the effect (lines 403-443) returns no cleanup,
\* and the refs and the state of the instance are gone with it.
Unmount(i) ==
  /\ instances[i].mounted = "yes"
  /\ instances' = [instances EXCEPT ![i] = [NewInstance EXCEPT !.mounted = "gone"]]
  /\ out' = <<>>
  /\ ev' = Event("unmount", i, Phase(instances[i]))
  /\ UNCHANGED <<nodeWhoClaimedTheScroll, props>>

\* ----------------------------------------------------------- specifications

\* The samples a touch takes.
PageXs == {0, 5}

PageYs == {0, 5}

\* Touches along the x axis, and touches anywhere.
TouchesX == [pageX : PageXs, pageY : {0}]

Touches == [pageX : PageXs, pageY : PageYs]

EndTypes == {"touchend", "touchcancel"}

TouchTypes == {"touchstart", "touchmove"} \cup EndTypes

Step(i, T) ==
  \/ Mount(i)
  \/ \E event \in T : TouchStart(i, event)
  \/ \E event \in T, native \in BOOLEAN : TouchMove(i, event, native)
  \/ \E type \in EndTypes : TouchEnd(i, type)
  \/ \E own \in BOOLEAN : TransitionEnd(i, own)
  \/ Unmount(i)

\* Two sibling instances with the default props, touched along the x axis.
Init == InitWith({DefaultProps})

Next == \E i \in Nodes : Step(i, TouchesX)

Spec == Init /\ [][Next]_vars

\* One instance, A, under each of these props, touched anywhere.
PropsOne ==
  {[DefaultProps EXCEPT !.axis = a, !.resistance = r] :
     a \in Axes, r \in BOOLEAN}
  \cup {[DefaultProps EXCEPT !.disabled = TRUE],
        [DefaultProps EXCEPT !.ignoreNativeScroll = TRUE],
        [DefaultProps EXCEPT !.animateTransitions = FALSE]}
  \cup {[DefaultProps EXCEPT !.index = k] : k \in (0 - 1) .. DefaultProps.childCount}

InitOne == InitWith(PropsOne) /\ props["B"] = DefaultProps

NextOne == Step("A", Touches)

SpecOne == InitOne /\ [][NextOne]_vars


\* The rotation of samples alone: each step rotates one sample for one axis;
\* out holds the sample and what applyRotationMatrix makes of it.
MaxSample == 3

Samples == [pageX : (0 - MaxSample) .. MaxSample,
            pageY : (0 - MaxSample) .. MaxSample]

Rotate(axis, touch) ==
  /\ ev' = Event("rotate", axis, "idle")
  /\ out' = << touch, applyRotationMatrix(touch, axis) >>
  /\ UNCHANGED <<nodeWhoClaimedTheScroll, props, instances>>

NextRotation == \E axis \in Axes, touch \in Samples : Rotate(axis, touch)

SpecRotation == Init /\ [][NextRotation]_vars

\* ================================================================ claims

\* What the claims read.
Handled(type, i) == ev.type = type /\ ev.inst = i

Has(calls, cb) == \E k \in 1 .. Len(calls) : calls[k].cb = cb

HasCall(calls, call) == \E k \in 1 .. Len(calls) : calls[k] = call

\* The step is the handling of an event of one of these types by i.
Handles(i, types) == ev'.type \in types /\ ev'.inst = i

HeldByOther(i) ==
  nodeWhoClaimedTheScroll \in Nodes /\ nodeWhoClaimedTheScroll # i

\* What a blocked move is said to leave alone.
MoveFrame(i) ==
  /\ instances'[i].indexCurrent = instances[i].indexCurrent
  /\ instances'[i].transform = instances[i].transform
  /\ instances'[i].startX = instances[i].startX
  /\ instances'[i].lastX = instances[i].lastX
  /\ instances'[i].vx = instances[i].vx
  /\ instances'[i].isSwiping = instances[i].isSwiping
  /\ nodeWhoClaimedTheScroll' = nodeWhoClaimedTheScroll

\* C1, as stated: every move event an instance handles while the registry
\* holds its sibling leaves its displayed index, its transform, its startX,
\* lastX, velocity and swipingDecided, and the registry, unchanged.
C1_AnyMoveOfSiblingIsInert ==
  [][\A b \in Nodes :
       (Handles(b, {"touchmove"}) /\ HeldByOther(b)) => MoveFrame(b)]_vars

\* C1, amended: every move event an instance whose gesture is started
\* handles while the registry holds its sibling leaves its displayed index,
\* its transform, its startX, lastX, velocity and swipingDecided, and the
\* registry, unchanged, and makes no call.
C1_StartedMoveOfSiblingIsInert ==
  [][\A b \in Nodes :
       (Handles(b, {"touchmove"}) /\ HeldByOther(b) /\ instances[b].started)
         => (MoveFrame(b) /\ out' = <<>>)]_vars

\* B, in a confirmed swipe, has handled a move while the registry held A.
C1_Witness ==
  /\ Handled("touchmove", "B")
  /\ nodeWhoClaimedTheScroll = "A"
  /\ instances["B"].started
  /\ instances["B"].isSwiping = "true"
  /\ instances["A"].isDragging

\* C2: after a touch end or a touch cancel is handled by an instance, its
\* gesture is not started and the registry is empty.
C2_ReleaseClears ==
  ev.type \in EndTypes =>
    (~instances[ev.inst].started /\ nodeWhoClaimedTheScroll = Null)

\* hysteresis = 0.6, in tenths
hysteresisTenths == 6

\* threshold = 5
threshold == 5

\* The index a release settles at (C3): c is the instance at the release.
SettledIndex(c) ==
  LET forward == c.indexCurrent >= c.startIndex
      frac    == c.indexCurrent % ViewLength
      delta   == IF forward THEN frac ELSE ViewLength - frac
      flick   == /\ Abs(c.vx) > threshold * VScale
                 /\ IF forward THEN c.vx < 0 ELSE c.vx > 0
      next    == IF forward
                 THEN (c.indexCurrent \div ViewLength + 1) * ViewLength
                 ELSE ((c.indexCurrent + ViewLength - 1) \div ViewLength - 1)
                        * ViewLength
  IN  IF delta * 10 > hysteresisTenths * ViewLength \/ flick
      THEN next ELSE c.startIndex

\* C3: the release of a confirmed swipe leaves the displayed index at the
\* next integer in the drag direction if the drag passed the hysteresis or
\* was a flick in that direction, and at the starting index otherwise.
C3_ReleaseSettles ==
  [][\A i \in Nodes :
       (Handles(i, EndTypes) /\ instances[i].started
          /\ instances[i].isSwiping = "true" /\ instances[i].isDragging)
         => instances'[i].indexCurrent = SettledIndex(instances[i])]_vars

\* C4: the release of a confirmed swipe makes a switching call with reason
\* "end" that carries the settled index, and makes a change call exactly
\* when the settled index differs from the index committed before.
C4_ReleaseNotifies ==
  [][\A i \in Nodes :
       (Handles(i, EndTypes) /\ instances[i].started
          /\ instances[i].isSwiping = "true" /\ instances[i].isDragging)
         => /\ HasCall(out', Call("onSwitching",
                                  instances'[i].indexCurrent, "end"))
            /\ Has(out', "onChangeIndex")
                 <=> instances'[i].indexCurrent # props[i].index * ViewLength]_vars

\* C5: with resistance disabled, at least one child and the index prop within
\* bounds, the index the container's transform displays lies in
\* [0, childCount - 1] in every state of a mounted instance.
C5_DisplayedIndexWithinBounds ==
  \A i \in Nodes :
    (/\ instances[i].mounted = "yes"
     /\ ~props[i].resistance
     /\ props[i].childCount >= 1
     /\ props[i].index \in 0 .. props[i].childCount - 1)
      => /\ instances[i].transform # None
         /\ transformIndex(props[i], instances[i]) >= 0
         /\ transformIndex(props[i], instances[i])
              <= (props[i].childCount - 1) * ViewLength
         /\ instances[i].indexCurrent = transformIndex(props[i], instances[i])

\* A move dragged past an edge has been applied: the view is pinned at the
\* edge, and the registry was not claimed.
C5_Witness ==
  /\ Handled("touchmove", "A")
  /\ ~props["A"].resistance
  /\ props["A"].index \in 0 .. props["A"].childCount - 1
  /\ Has(out, "onSwitching")
  /\ instances["A"].indexCurrent = 0
  /\ instances["A"].startX = instances["A"].lastX
  /\ instances["A"].startX # 0
  /\ nodeWhoClaimedTheScroll = Null

\* C6: a move for which findNativeHandler is asked and reports a native
\* handler leaves the displayed index, the transform, startX and the
\* registry unchanged and makes no switching call.
C6_NativeScrollHandoff ==
  [][\A i \in Nodes :
       (Handles(i, {"touchmove"})
          /\ HasCall(out', Call("findNativeHandler", 0, "true")))
         => /\ instances'[i].indexCurrent = instances[i].indexCurrent
            /\ instances'[i].transform = instances[i].transform
            /\ instances'[i].startX = instances[i].startX
            /\ nodeWhoClaimedTheScroll' = nodeWhoClaimedTheScroll
            /\ nodeWhoClaimedTheScroll = Null
            /\ ~Has(out', "onSwitching")]_vars

\* A confirmed swipe's move was handed to a native handler.
C6_Witness ==
  /\ Handled("touchmove", "A")
  /\ instances["A"].isSwiping = "true"
  /\ ~props["A"].ignoreNativeScroll
  /\ nodeWhoClaimedTheScroll = Null
  /\ HasCall(out, Call("findNativeHandler", 0, "true"))

\* C7: the registry never holds an instance that has been unmounted.
C7_UnmountReleases ==
  \A i \in Nodes :
    instances[i].mounted = "gone" => nodeWhoClaimedTheScroll # i

\* C8: mounting warns exactly when the index prop is outside
\* [0, childCount - 1], and displays the index prop in either case.
C8_BoundsWarning ==
  ev.type = "mount" =>
    /\ Has(out, "console.warn")
         <=> props[ev.inst].index \notin 0 .. props[ev.inst].childCount - 1
    /\ instances[ev.inst].indexCurrent = props[ev.inst].index * ViewLength

C10_NoTransitionEndWhileDragging ==
  \A i \in Nodes :
    (ev.inst = i /\ instances[i].isDragging) => ~Has(out, "onTransitionEnd")

\* A move of a drag has changed the displayed index with animateTransitions
\* disabled.
C10_Witness ==
  /\ Handled("touchmove", "A")
  /\ ~props["A"].animateTransitions
  /\ props["A"].onTransitionEnd
  /\ instances["A"].isDragging
  /\ Has(out, "onSwitching")
  /\ instances["A"].indexCurrent # props["A"].index * ViewLength


\* ------------------------------------------------------------ C11 .. C20

\* The transpose of a rotation matrix, and a matrix applied to a sample.
Transposed(m) == [x |-> <<m.x[1], m.y[1]>>, y |-> <<m.x[2], m.y[2]>>]

ApplyMatrix(m, touch) ==
  [pageX |-> m.x[1] * touch.pageX + m.x[2] * touch.pageY,
   pageY |-> m.y[1] * touch.pageX + m.y[2] * touch.pageY]

\* C11: for each axis and each sample, the transpose of the axis's rotation
\* matrix applied to the rotated sample gives the sample back.
C11_TransposeInvertsRotation ==
  ev.type = "rotate" =>
    ApplyMatrix(Transposed(rotationMatrix(ev.inst)), out[2]) = out[1]

\* A sample off both axes has been rotated for y-reverse.
C11_Witness ==
  /\ ev.type = "rotate"
  /\ ev.inst = "y-reverse"
  /\ out[1] = [pageX |-> 2, pageY |-> 0 - 1]
  /\ out[2] = [pageX |-> 1, pageY |-> 2]

\* The move reaches the body of handleSwipeMove: the instance is enabled,
\* its gesture is started and the registry does not hold a sibling.
Reaches(i) ==
  /\ ~props[i].disabled
  /\ instances[i].started
  /\ ~HeldByOther(i)

\* The deltas of a sample from the starting point of i, in swipe space.
Dx(i, event) ==
  Abs(applyRotationMatrix(event, props[i].axis).pageX - instances[i].startX)

Dy(i, event) ==
  Abs(applyRotationMatrix(event, props[i].axis).pageY - instances[i].startY)

\* What the deltas alone decide (C12).
DecidedByDeltas(dx, dy) ==
  IF dx > dy /\ dx > UNCERTAINTY_THRESHOLD THEN "true"
  ELSE IF dy > UNCERTAINTY_THRESHOLD /\ dx <= dy THEN "false"
  ELSE "undefined"

\* The instance is at index 0 and the sample drags further back, or at the
\* last index and the sample drags further forward, on a vertical axis with
\* resistance disabled.
AtVerticalEdge(i, event) ==
  LET pageX == applyRotationMatrix(event, props[i].axis).pageX
  IN  /\ ~props[i].resistance
      /\ props[i].axis \in {"y", "y-reverse"}
      /\ \/ instances[i].indexCurrent = 0 /\ instances[i].startX < pageX
         \/ /\ instances[i].indexCurrent = (props[i].childCount - 1) * ViewLength
            /\ instances[i].startX > pageX

Applied(i, native) ==
  /\ Reaches(i)
  /\ instances[i].isSwiping = "true"
  /\ ~(nodeWhoClaimedTheScroll = Null /\ ~props[i].ignoreNativeScroll /\ native)

\* What computeIndex gives for a sample.
Computed(i, event) ==
  computeIndex(props[i].childCount, props[i].resistance,
               applyRotationMatrix(event, props[i].axis).pageX,
               instances[i].startIndex, instances[i].startX,
               instances[i].viewLength)

\* C13: with resistance disabled, an applied move for which computeIndex
\* reports an adjusted startX sets startX to it and leaves the registry
\* alone; any other applied move claims the registry if it is empty.
C13_EdgePinnedNeverClaims ==
  [][\A i \in Nodes, event \in Touches, native \in BOOLEAN :
       (TouchMove(i, event, native) /\ Applied(i, native)
          /\ ~props[i].resistance)
         => IF Computed(i, event).adjusted
            THEN /\ instances'[i].startX = Computed(i, event).startX
                 /\ nodeWhoClaimedTheScroll' = nodeWhoClaimedTheScroll
            ELSE nodeWhoClaimedTheScroll'
                   = IF nodeWhoClaimedTheScroll = Null
                     THEN i ELSE nodeWhoClaimedTheScroll]_vars

\* C14: a move of a gesture decided non-swipe leaves the displayed index,
\* the transform, startX, lastX, the velocity and the registry unchanged and
\* makes no call.
C14_NonSwipeMoveIsInert ==
  [][\A i \in Nodes :
       (Handles(i, {"touchmove"}) /\ instances[i].started
          /\ instances[i].isSwiping = "false")
         => (MoveFrame(i) /\ out' = <<>>)]_vars

\* A move has been handled in a gesture that was decided non-swipe before.
C14_Witness ==
  /\ Handled("touchmove", "A")
  /\ ~props["A"].disabled
  /\ ev.phase = "false"
  /\ instances["A"].isSwiping = "false"

\* The event started a gesture of i: a touch start, or a move that found no
\* gesture started.
StartedGesture(i) ==
  /\ ev.inst = i
  /\ \/ ev.type = "touchstart"
     \/ ev.type = "touchmove" /\ ev.phase = "idle" /\ ~props[i].disabled

C16_VerticalEdgeExit ==
  [][\A i \in Nodes, event \in Touches, native \in BOOLEAN :
       (TouchMove(i, event, native) /\ Reaches(i)
          /\ instances[i].isSwiping = "undefined")
         => /\ AtVerticalEdge(i, event)
                 => /\ instances'[i]
                         = [instances[i] EXCEPT !.isSwiping = "false"]
                    /\ nodeWhoClaimedTheScroll' = nodeWhoClaimedTheScroll
                    /\ out' = <<>>
            /\ (/\ instances'[i].isSwiping = "false"
                /\ \/ props[i].axis \in {"x", "x-reverse"}
                   \/ props[i].resistance)
                 => /\ Dy(i, event) > UNCERTAINTY_THRESHOLD
                    /\ Dx(i, event) <= Dy(i, event)]_vars

\* A move has taken the exit at index 0 of a vertical axis.
C16_Witness ==
  /\ Handled("touchmove", "A")
  /\ ev.phase = "undefined"
  /\ props["A"].axis \in {"y", "y-reverse"}
  /\ ~props["A"].resistance
  /\ instances["A"].isSwiping = "false"
  /\ instances["A"].indexCurrent = 0
  /\ instances["A"].startX = instances["A"].lastX
  /\ instances["A"].startY = 0
  /\ out = <<>>

\* C17: findNativeHandler is asked only while the registry is empty and
\* ignoreNativeScroll is false; a confirmed-swipe move handled by the holder
\* of the registry, or with ignoreNativeScroll set, applies the computed
\* index whatever findNativeHandler would answer.
C17_NativeAskedOnlyUnclaimed ==
  [][\A i \in Nodes, event \in Touches, native \in BOOLEAN :
       TouchMove(i, event, native)
         => /\ Has(out', "findNativeHandler")
                 => /\ nodeWhoClaimedTheScroll = Null
                    /\ ~props[i].ignoreNativeScroll
            /\ (/\ Reaches(i)
                /\ instances[i].isSwiping = "true"
                /\ \/ nodeWhoClaimedTheScroll = i
                   \/ props[i].ignoreNativeScroll)
                 => /\ instances'[i].indexCurrent = Computed(i, event).index
                    /\ instances'[i].transform
                         = axisTransform(props[i].axis, Computed(i, event).index)
                    /\ Has(out', "onSwitching")
                    /\ ~Has(out', "findNativeHandler")]_vars

\* The holder of the registry has applied a later move of its gesture
\* without findNativeHandler being asked.
C17_Witness ==
  /\ Handled("touchmove", "A")
  /\ ev.phase = "true"
  /\ nodeWhoClaimedTheScroll = "A"
  /\ ~props["A"].ignoreNativeScroll
  /\ Has(out, "onSwitching")
  /\ ~Has(out, "findNativeHandler")

\* How many calls of cb there are.
Count(calls, cb) == Cardinality({k \in 1 .. Len(calls) : calls[k].cb = cb})

\* C18: an applied move displays the computed index and makes exactly one
\* switching call, with reason "move" and that index.
C18_OneSwitchingCallPerMove ==
  [][\A i \in Nodes, event \in Touches, native \in BOOLEAN :
       (TouchMove(i, event, native) /\ Applied(i, native))
         => /\ instances'[i].indexCurrent = Computed(i, event).index
            /\ instances'[i].transform
                 = axisTransform(props[i].axis, Computed(i, event).index)
            /\ HasCall(out', Call("onSwitching", Computed(i, event).index, "move"))
            /\ Count(out', "onSwitching") = 1]_vars

\* C19: a non-empty registry holds a mounted instance whose gesture is
\* started and confirmed as a swipe.
C19_RegistryHoldsSwipingInstance ==
  nodeWhoClaimedTheScroll # Null =>
    /\ nodeWhoClaimedTheScroll \in Nodes
    /\ instances[nodeWhoClaimedTheScroll].mounted = "yes"
    /\ instances[nodeWhoClaimedTheScroll].started
    /\ instances[nodeWhoClaimedTheScroll].isSwiping = "true"

\* The other half of C19: the registry is written only when it is empty.
C19_RegistryWrittenOnlyWhenEmpty ==
  [][nodeWhoClaimedTheScroll # Null =>
       nodeWhoClaimedTheScroll' = nodeWhoClaimedTheScroll]_vars

\* C20: a move handled by an enabled instance whose gesture is not started
\* does what a touch start with that sample does: it sets started, startX,
\* lastX, startY, the velocity and swipingDecided, and changes neither the
\* displayed index nor the registry, whoever holds it, and makes no call.
C20_MoveWithoutStartIsStart ==
  [][\A i \in Nodes, event \in Touches, native \in BOOLEAN :
       (TouchMove(i, event, native) /\ ~props[i].disabled
          /\ ~instances[i].started)
         => /\ instances'[i].started
            /\ instances'[i].startX
                 = applyRotationMatrix(event, props[i].axis).pageX
            /\ instances'[i].lastX = instances'[i].startX
            /\ instances'[i].startY
                 = applyRotationMatrix(event, props[i].axis).pageY
            /\ instances'[i].vx = 0
            /\ instances'[i].isSwiping = "undefined"
            /\ instances'[i].indexCurrent = instances[i].indexCurrent
            /\ instances'[i].transform = instances[i].transform
            /\ nodeWhoClaimedTheScroll' = nodeWhoClaimedTheScroll
            /\ out' = <<>>]_vars

\* A move has started the gesture of B while the registry held A.
C20_Witness ==
  /\ Handled("touchmove", "B")
  /\ ev.phase = "idle"
  /\ nodeWhoClaimedTheScroll = "A"
  /\ instances["B"].started
  /\ instances["B"].startX # 0

=============================================================================
